---- MODULE Spec2Model ----
(***************************************************************************)
(* Client-side API orchestration of the ex-GPT frontend                    *)
(* (frontend/src/utils/exgptAPI.js): the unified facade ExGPTAPI.search,    *)
(* ImageSearchAPI.searchImages with its retry / backend fallback loop,      *)
(* ChatAPI.sendMessage with its endpoint fallback, and the HealthAPI        *)
(* probes.                                                                  *)
(*                                                                          *)
(* Strings are sequences of characters.  A Hangul syllable is one           *)
(* character (one UTF-16 unit); it is written here as its romanisation,     *)
(* e.g. <<"sa","jin">> is the two-character keyword U+C0AC U+C9C4.          *)
(* Error messages are sequences of words; String.prototype.includes is the  *)
(* contiguous-subsequence test Includes on both.                            *)
(***************************************************************************)
EXTENDS Integers, Sequences, FiniteSets, TLC

\* ------------------------------------------------------------------ bounds
MaxQueryLen == 4

\* --------------------------------------------------------------- API_CONFIG
MULTIMODAL_BASE_URL == "http://localhost:8201"
TEST_BACKEND_URL == "http://localhost:8200"
MCP_BASE_URL == "http://localhost:8201"
RETRY_COUNT == 1
RETRY_DELAY == 2000

\* ------------------------------------------------------------ string helpers
\* String.prototype.includes(sub): sub occurs in s as a contiguous run.
Includes(s, sub) ==
  \E i \in 0..(Len(s) - Len(sub)) : SubSeq(s, i + 1, i + Len(sub)) = sub

\* Lower-casing of one character: Latin capitals fold, Hangul has no case.
LowerChar(c) ==
  CASE c = "C" -> "c"
    [] c = "T" -> "t"
    [] c = "V" -> "v"
    [] OTHER -> c

\* String.prototype.toLowerCase()
toLowerCase(s) == [i \in 1..Len(s) |-> LowerChar(s[i])]

\* Characters the modelled queries are built from: the Latin letters of
\* "cctv" with a capital, and the two syllables of U+C0AC U+C9C4.
LatinChars == {"c", "C", "t", "v"}
HangulChars == {"sa", "jin"}
Strings(chars) == UNION {[1..n -> chars] : n \in 0..MaxQueryLen}

\* The two example queries of the specification: "<hae-mu> <sa-jin-eul>
\* <bo-yeo-ju-se-yo>" and "<an-nyeong-ha-se-yo>".
ExampleImageQuery ==
  <<"hae", "mu", " ", "sa", "jin", "eul", " ", "bo", "yeo", "ju", "se", "yo">>
ExampleChatQuery == <<"an", "nyeong", "ha", "se", "yo">>

\* A query mixing both scripts and cases: "<sa>  CCTV".
MixedQuery == <<"sa", " ", "C", "C", "T", "V">>

Queries ==
  Strings(LatinChars) \cup Strings(HangulChars)
    \cup {ExampleImageQuery, ExampleChatQuery, MixedQuery}

\* ------------------------------------------------------------ ExGPTAPI.search
imageKeywords ==
  << <<"sa", "jin">>, <<"i", "mi", "ji">>, <<"geu", "rim">>, <<"hae", "mu">>,
     <<"an", "gae">>, <<"c", "c", "t", "v">>, <<"ka", "me", "ra">>,
     <<"nal", "ssi">>, <<"si", "ya">>, <<"ga", "si", "geo", "ri">>,
     <<"gang", "u">>, <<"gang", "seol">>, <<"ya", "gan">>, <<"malg", "eum">>,
     <<"gyeong", "bu", "go", "sok", "do", "ro">>,
     <<"jung", "bu", "go", "sok", "do", "ro">>,
     <<"seo", "hae", "an", "go", "sok", "do", "ro">> >>

\* Mutant of hasImageKeyword: the query is not lower-cased before matching.
hasImageKeyword_CaseSensitive(q) ==
  \E k \in 1..Len(imageKeywords) : Includes(q, toLowerCase(imageKeywords[k]))

hasImageKeyword(q) ==
  \E k \in 1..Len(imageKeywords) :
     Includes(toLowerCase(q), toLowerCase(imageKeywords[k]))

\* ------------------------------------------------------------ fetch outcomes
\* What one fetch + response.json() of the code can end in.
\*   ok              response.ok and the body parses
\*   http500         a response whose ok flag is false (status 500)
\*   badjson         response.ok but response.json() rejects (SyntaxError)
\*   failed_to_fetch fetch rejects, TypeError "Failed to fetch"
\*   conn_refused    fetch rejects, message carries ERR_CONNECTION_REFUSED
\*   timeout         AbortSignal.timeout fires, DOMException TimeoutError
FetchOutcomes ==
  {"ok", "http500", "badjson", "failed_to_fetch", "conn_refused", "timeout"}

NoError == [name |-> "", message |-> <<>>]

\* The rejection reason fetch / response.json() produce for an outcome.
FetchError(outcome) ==
  CASE outcome = "badjson" ->
         [name |-> "SyntaxError", message |-> <<"Unexpected", "token">>]
    [] outcome = "failed_to_fetch" ->
         [name |-> "TypeError", message |-> <<"Failed to fetch">>]
    [] outcome = "conn_refused" ->
         [name |-> "TypeError", message |-> <<"net::", "ERR_CONNECTION_REFUSED">>]
    [] outcome = "timeout" ->
         [name |-> "TimeoutError", message |-> <<"signal", "timed", "out">>]
    [] OTHER -> NoError

\* new Error(`HTTP error! status: ${response.status}`)
HttpError == [name |-> "Error", message |-> <<"HTTP error! status:", "500">>]

\* -------------------------------------------------------------------- state
VARIABLES
  pc,         \* position of the running ExGPTAPI.search call
  query,      \* its query argument
  calls,      \* the client methods search has called, in order
  urlIdx,     \* searchImages: index into backendUrls of the outer loop
  attempt,    \* searchImages: the inner loop's attempt counter
  lastError,  \* searchImages: its lastError variable
  log,        \* requests sent and retry delays waited, in order
  result,     \* the value the call resolved with
  thrown      \* the error the call rejected with

searchVars == <<pc, query, calls, urlIdx, attempt, lastError, log, result, thrown>>

VARIABLES
  hpc,              \* position of checkMultimodalBackend
  mpc,              \* position of checkMCPBackend
  apc,              \* position of checkAllServices
  inflight,         \* health requests sent and not yet settled
  sent,             \* health requests sent, in order
  probes,           \* completed probes: request, outcome, body and result
  mainResult,       \* checkMultimodalBackend: its mainResult
  multimodalResult, \* the value checkMultimodalBackend resolved with
  mcpResult,        \* the value checkMCPBackend resolved with
  allResult         \* the value checkAllServices resolved with

healthVars == <<hpc, mpc, apc, inflight, sent, probes, mainResult,
                multimodalResult, mcpResult, allResult>>

VARIABLES
  shMounted,       \* SearchHistory: the component is mounted
  searchHistory,   \* SearchHistory: its searchHistory state
  favorites,       \* SearchHistory: its favorites state
  isExpanded,      \* SearchHistory: its isExpanded state
  currentQuery,    \* SearchHistory: its currentQuery prop
  storedHistory,   \* localStorage item ex-gpt-search-history, parsed
  storedFavorites, \* localStorage item ex-gpt-search-favorites, parsed
  lastAdded,       \* the query addToHistory stored last (<<>>: none yet)
  lastToggle,      \* the last toggleFavorite call: its query, and whether
                   \* the query was a favorite when it was called
  justMounted      \* set by the mount effects, with the history local
                   \* storage held before them; reset by every later handler

historyVars == <<shMounted, searchHistory, favorites, isExpanded, currentQuery,
                 storedHistory, storedFavorites, lastAdded, lastToggle,
                 justMounted>>

VARIABLES
  cache,            \* MockSearchService.cache: the keys of the Map, in the
                    \* order a Map iterates them
  mockHistory,      \* MockSearchService.searchHistory
  pendingSearches,  \* per cache key, the search calls awaiting simulateApiCall
  insertionOrder,   \* the keys now cached, in the order they entered the cache
  lastEvicted,      \* the last eviction: the key deleted, and the key that
                    \* had entered the cache earliest
  lastReturn        \* what the last settled search call returned from

mockVars == <<cache, mockHistory, pendingSearches, insertionOrder,
              lastEvicted, lastReturn>>

VARIABLES
  devMode,              \* import.meta.env.DEV of the build
  inputValue,           \* App state: the text in the input field
  chatMessages,         \* App state
  imageSearchResults,   \* App state: per image, the page it was loaded with
  imageSearchLoading,   \* App state
  imageSearchError,     \* App state
  hasMoreImages,        \* App state
  totalImageCount,      \* App state
  currentImagePage,     \* App state
  hasSearched,          \* App state
  isResponding,         \* App state
  handler,              \* the searchImages / sendChatMessage call in flight
  appCalls,             \* handler calls started so far
  lastCall              \* the handler call that finished last, with the state
                        \* it started from

appVars == <<devMode, inputValue, chatMessages, imageSearchResults,
             imageSearchLoading, imageSearchError, hasMoreImages,
             totalImageCount, currentImagePage, hasSearched, isResponding,
             handler, appCalls, lastCall>>

VARIABLES
  innerWidth,           \* window.innerWidth
  appMounted,           \* App is mounted and its resize listener registered
  isOpen,               \* App state: the aside is open
  isLargeScreen,        \* App state
  manualClosed,         \* App state
  headerMounted,        \* Header is mounted and its resize listener registered
  headerIsLargeScreen,  \* Header state isLargeScreen
  lastLargeToggle,      \* what the last toggleAside call on a window wider
                        \* than the breakpoint did: "closed", "opened", "none"
  lastLayoutEvent       \* the last event: "mount", "resize", "toggle", "none"

layoutVars == <<innerWidth, appMounted, isOpen, isLargeScreen, manualClosed,
                headerMounted, headerIsLargeScreen, lastLargeToggle,
                lastLayoutEvent>>

VARIABLES
  modalOpen,           \* the isOpen prop of the Modal
  onCancelId,          \* identity of the onCancel prop, and so of the
                       \* handleKeyDown callback, of the latest render
  listeners,           \* keydown listeners of the Modal on document, each
                       \* named by the identity of its callback
  activeElement,       \* document.activeElement
  lastFocusedElement,  \* the ref lastFocusedElement.current
  restorePending,      \* a setTimeout(..., 0) focus restore is waiting
  closedHidden,        \* the style sheet, which is not part of the sources,
                       \* takes the closed modal out of the focus order
  focusBeforeOpen,     \* the element that had focus when the modal opened
  modalPhase,          \* "idle", "open", "closing" (closed, restore waiting),
                       \* "restored" (that restore has just run)
  lastKey              \* the keydown event handled last, reset by any
                       \* other event

modalVars == <<modalOpen, onCancelId, listeners, activeElement,
               lastFocusedElement, restorePending, closedHidden, focusBeforeOpen,
               modalPhase, lastKey>>

\* What the actions of one component leave alone.
nonSearchVars == <<healthVars, historyVars, mockVars, appVars, layoutVars, modalVars>>
nonHealthVars == <<searchVars, historyVars, mockVars, appVars, layoutVars, modalVars>>
nonHistoryVars == <<searchVars, healthVars, mockVars, appVars, layoutVars, modalVars>>
nonMockVars == <<searchVars, healthVars, historyVars, appVars, layoutVars, modalVars>>
nonAppVars == <<searchVars, healthVars, historyVars, mockVars, layoutVars, modalVars>>
nonLayoutVars == <<searchVars, healthVars, historyVars, mockVars, appVars, modalVars>>
nonModalVars == <<searchVars, healthVars, historyVars, mockVars, appVars, layoutVars>>

NoResult == [type |-> "none"]

InitSearch ==
  /\ pc = "idle"
  /\ query = <<>>
  /\ calls = <<>>
  /\ urlIdx = 1
  /\ attempt = 0
  /\ lastError = NoError
  /\ log = <<>>
  /\ result = NoResult
  /\ thrown = NoError

\* A fetch of url + path and what it ended in.
RequestEvent(url, path, outcome) ==
  [kind |-> "request", url |-> url, path |-> path, outcome |-> outcome, wait |-> 0]

\* await new Promise(resolve => setTimeout(resolve, API_CONFIG.RETRY_DELAY))
DelayEvent(url) ==
  [kind |-> "delay", url |-> url, path |-> "", outcome |-> "", wait |-> RETRY_DELAY]

\* ------------------------------------------------ ImageSearchAPI.searchImages
\* Mutant of backendUrls: the two URLs are listed in the wrong order.
backendUrls_Reversed == <<TEST_BACKEND_URL, MULTIMODAL_BASE_URL>>

\* Mutant of backendUrls: the test backend is missing from the list.
backendUrls_PrimaryOnly == <<MULTIMODAL_BASE_URL>>

backendUrls == <<MULTIMODAL_BASE_URL, TEST_BACKEND_URL>>

SEARCH_IMAGES_PATH == "/api/v1/search/images"

\* Mutant of RetryLoopContinues: an off-by-one loop bound.
RetryLoopContinues_OneMore(a) == a <= RETRY_COUNT + 1

\* The inner for loop's condition, attempt <= API_CONFIG.RETRY_COUNT.
RetryLoopContinues(a) == a <= RETRY_COUNT

\* Mutant of IsConnectionError: the TimeoutError test is missing.
IsConnectionError_NoTimeout(e) ==
  \/ Includes(e.message, <<"Failed to fetch">>)
  \/ Includes(e.message, <<"ERR_CONNECTION_REFUSED">>)

\* The catch block's test that breaks out of the retry loop.
IsConnectionError(e) ==
  \/ Includes(e.message, <<"Failed to fetch">>)
  \/ Includes(e.message, <<"ERR_CONNECTION_REFUSED">>)
  \/ e.name = "TimeoutError"

\* JSON bodies a backend may answer an image search with: data.success and
\* the number of entries of data.images.
ImageBodies == [success : BOOLEAN, images : {0, 1}]

\* The object searchImages returns on success.
ImageResult(url, data) ==
  [type |-> "images",
   success |-> data.success,
   backend |-> url,
   images |-> data.images]

\* Mutant of ImageSearchFailure: the message of the caught error is dropped
\* and the fallback text is always used.
ImageSearchFailure_Unknown(e) ==
  [name |-> "Error", message |-> <<"image search failed:", "unknown error">>]

\* throw new Error(`<image search failed>: ${lastError?.message || <unknown error>}`)
ImageSearchFailure(e) ==
  [name |-> "Error",
   message |-> <<"image search failed:">> \o
               (IF e.message = <<>> THEN <<"unknown error">> ELSE e.message)]

\* Where the loops stand once the attempt counter becomes a on URL index u:
\* another attempt on u, the first attempt on the next URL, or the throw
\* after both loops.
LoopAdvance(u, a, e) ==
  IF RetryLoopContinues(a)
  THEN /\ pc' = "img_fetch"
       /\ urlIdx' = u
       /\ attempt' = a
       /\ UNCHANGED <<result, thrown>>
  ELSE IF u < Len(backendUrls)
  THEN /\ pc' = "img_fetch"
       /\ urlIdx' = u + 1
       /\ attempt' = 0
       /\ UNCHANGED <<result, thrown>>
  ELSE /\ pc' = "rejected"
       /\ thrown' = ImageSearchFailure(e)
       /\ UNCHANGED <<urlIdx, attempt, result>>

\* break: leave the retry loop of URL index u.
LoopBreak(u, e) ==
  IF u < Len(backendUrls)
  THEN /\ pc' = "img_fetch"
       /\ urlIdx' = u + 1
       /\ attempt' = 0
       /\ UNCHANGED <<result, thrown>>
  ELSE /\ pc' = "rejected"
       /\ thrown' = ImageSearchFailure(e)
       /\ UNCHANGED <<urlIdx, attempt, result>>

\* One iteration of the inner loop up to its next await: the fetch, the
\* response handling and, on failure, the catch block.
ImgFetch(outcome, data) ==
  /\ pc = "img_fetch"
  /\ UNCHANGED nonSearchVars
  /\ log' = Append(log, RequestEvent(backendUrls[urlIdx], SEARCH_IMAGES_PATH, outcome))
  /\ UNCHANGED <<query, calls>>
  /\ IF outcome = "ok"
     THEN /\ pc' = "resolved"
          /\ result' = ImageResult(backendUrls[urlIdx], data)
          /\ UNCHANGED <<urlIdx, attempt, lastError, thrown>>
     ELSE LET e == IF outcome = "http500" THEN HttpError ELSE FetchError(outcome)
          IN /\ lastError' = e
             /\ IF IsConnectionError(e)
                THEN LoopBreak(urlIdx, e)
                ELSE IF attempt < RETRY_COUNT
                THEN /\ pc' = "img_delay"
                     /\ UNCHANGED <<urlIdx, attempt, result, thrown>>
                ELSE LoopAdvance(urlIdx, attempt + 1, e)

\* The retry delay has elapsed: attempt++ and the loop condition.
ImgDelay ==
  /\ pc = "img_delay"
  /\ UNCHANGED nonSearchVars
  /\ log' = Append(log, DelayEvent(backendUrls[urlIdx]))
  /\ UNCHANGED <<query, calls, lastError>>
  /\ LoopAdvance(urlIdx, attempt + 1, lastError)

\* --------------------------------------------------------- ChatAPI.sendMessage
CHAT_MULTIMODAL_PATH == "/api/v1/chat/multimodal"
CHAT_PATH == "/api/v1/chat"

\* Mutant of MultimodalFailed: a non-OK status of the multimodal endpoint is
\* taken for an answer.
MultimodalFailed_OnlyThrown(outcome) == outcome \notin {"ok", "http500"}

\* The multimodal attempt does not return: the response is not ok, or fetch
\* or response.json() threw into the inner catch.
MultimodalFailed(outcome) == outcome # "ok"

\* The outer catch block of sendMessage: what it throws for a caught error.
ChatFailure(e) ==
  IF e.name = "TimeoutError" \/ Includes(e.message, <<"timeout">>)
  THEN [name |-> "Error", message |-> <<"request timed out, try again later">>]
  ELSE [name |-> "Error", message |-> <<"chat request failed:">> \o e.message]

\* The object ExGPTAPI.search builds from the chat response.
ChatResult(path) == [type |-> "chat", success |-> TRUE, backend |-> path, images |-> 0]

\* The first try block: POST to the multimodal endpoint.
ChatMultimodal(outcome) ==
  /\ pc = "chat_multimodal"
  /\ UNCHANGED nonSearchVars
  /\ log' = Append(log, RequestEvent(MULTIMODAL_BASE_URL, CHAT_MULTIMODAL_PATH, outcome))
  /\ UNCHANGED <<query, calls, urlIdx, attempt, lastError, thrown>>
  /\ IF MultimodalFailed(outcome)
     THEN /\ pc' = "chat_mcp"
          /\ UNCHANGED result
     ELSE /\ pc' = "resolved"
          /\ result' = ChatResult(CHAT_MULTIMODAL_PATH)

\* The second request: POST of the history-shaped body to /api/v1/chat.
ChatMCP(outcome) ==
  /\ pc = "chat_mcp"
  /\ UNCHANGED nonSearchVars
  /\ log' = Append(log, RequestEvent(MCP_BASE_URL, CHAT_PATH, outcome))
  /\ UNCHANGED <<query, calls, urlIdx, attempt, lastError>>
  /\ IF outcome = "ok"
     THEN /\ pc' = "resolved"
          /\ result' = ChatResult(CHAT_PATH)
          /\ UNCHANGED thrown
     ELSE /\ pc' = "rejected"
          /\ thrown' = ChatFailure(IF outcome = "http500" THEN HttpError
                                   ELSE FetchError(outcome))
          /\ UNCHANGED result

\* ------------------------------------------------------------ ExGPTAPI.search
\* search(query): keyword detection and the call of one of the two clients,
\* up to the first await inside it.
Search(q) ==
  /\ pc = "idle"
  /\ UNCHANGED nonSearchVars
  /\ query' = q
  /\ UNCHANGED <<urlIdx, attempt, lastError, log, result, thrown>>
  /\ IF hasImageKeyword(q)
     THEN /\ calls' = Append(calls, "ImageSearchAPI.searchImages")
          /\ pc' = "img_fetch"
     ELSE /\ calls' = Append(calls, "ChatAPI.sendMessage")
          /\ pc' = "chat_multimodal"

\* ------------------------------------------------------------------ HealthAPI
HEALTH_PATH == "/health"
MCP_HEALTH_PATH == "/api/v1/health"

\* { ...a, ...b }: object spread, later properties override earlier ones.
Spread(a, b) ==
  [k \in DOMAIN a \cup DOMAIN b |-> IF k \in DOMAIN b THEN b[k] ELSE a[k]]

\* JSON objects a health endpoint may answer with: no status property, or a
\* status property of its own.
EmptyObject == [k \in {} |-> ""]
HealthBodies == {EmptyObject, [status |-> "healthy"], [status |-> "ok"]}

HealthRequest(fn, url, path) == [fn |-> fn, url |-> url, path |-> path]

\* Mutant of BackendHealthCatch: the TimeoutError branch is missing.
BackendHealthCatch_NoTimeout(e, backendName) ==
  IF \/ Includes(e.message, <<"Failed to fetch">>)
     \/ Includes(e.message, <<"ERR_CONNECTION_REFUSED">>)
  THEN [status |-> "offline", backend |-> backendName]
  ELSE [status |-> "error", backend |-> backendName]

\* The catch block of checkBackendHealth.
BackendHealthCatch(e, backendName) ==
  IF \/ Includes(e.message, <<"Failed to fetch">>)
     \/ Includes(e.message, <<"ERR_CONNECTION_REFUSED">>)
  THEN [status |-> "offline", backend |-> backendName]
  ELSE IF e.name = "TimeoutError"
  THEN [status |-> "timeout", backend |-> backendName]
  ELSE [status |-> "error", backend |-> backendName]

\* The value checkBackendHealth(baseUrl, backendName) resolves with; the
\* backend names "main" and "test" stand for the code's Korean labels.
BackendHealthResult(outcome, data, backendName) ==
  CASE outcome = "ok" ->
         Spread([status |-> "healthy", backend |-> backendName], data)
    [] outcome = "http500" ->
         [status |-> "error", backend |-> backendName]
    [] OTHER -> BackendHealthCatch(FetchError(outcome), backendName)

\* The catch block of checkMCPBackend.
MCPHealthCatch(e) ==
  IF Includes(e.message, <<"Failed to fetch">>)
  THEN [status |-> "offline"]
  ELSE [status |-> "error"]

\* The value checkMCPBackend() resolves with.
MCPHealthResult(outcome, data) ==
  CASE outcome = "ok" -> Spread([status |-> "healthy"], data)
    [] outcome = "http500" -> [status |-> "error"]
    [] OTHER -> MCPHealthCatch(FetchError(outcome))

NoHealthResult == [status |-> "none"]

InitHealth ==
  /\ hpc = "idle"
  /\ mpc = "idle"
  /\ apc = "idle"
  /\ inflight = {}
  /\ sent = <<>>
  /\ probes = <<>>
  /\ mainResult = NoHealthResult
  /\ multimodalResult = NoHealthResult
  /\ mcpResult = NoHealthResult
  /\ allResult = [multimodal |-> NoHealthResult, mcp |-> NoHealthResult]

\* Mutant of AwaitSettled: the request is not awaited, it stays in flight
\* while the caller goes on.
AwaitSettled_NotAwaited(fl, req) == fl

\* await fetch(...) / await response.json(): the caller resumes once the
\* request has settled, which takes it out of the requests in flight.
AwaitSettled(fl, req) == fl \ {req}

\* Mutant of TestRequest: the fallback probe goes to the main URL again.
TestRequest_MainAgain ==
  HealthRequest("checkBackendHealth", MULTIMODAL_BASE_URL, HEALTH_PATH)

MainRequest == HealthRequest("checkBackendHealth", MULTIMODAL_BASE_URL, HEALTH_PATH)
TestRequest == HealthRequest("checkBackendHealth", TEST_BACKEND_URL, HEALTH_PATH)
MCPRequest == HealthRequest("checkMCPBackend", MCP_BASE_URL, MCP_HEALTH_PATH)

Probe(req, outcome, data, res) ==
  [request |-> req, outcome |-> outcome,
   body |-> IF outcome = "ok" THEN data ELSE EmptyObject, result |-> res]

\* checkAllServices(): both checks are started inside the argument list of
\* Promise.allSettled, each running up to its first fetch.
CheckAllServices ==
  /\ apc = "idle"
  /\ UNCHANGED nonHealthVars
  /\ apc' = "waiting"
  /\ hpc' = "main"
  /\ mpc' = "fetch"
  /\ inflight' = {MainRequest, MCPRequest}
  /\ sent' = <<MainRequest, MCPRequest>>
  /\ UNCHANGED <<probes, mainResult, multimodalResult, mcpResult, allResult>>

\* checkMultimodalBackend: the probe of the main backend settles.
MainProbeSettles(outcome, data) ==
  /\ hpc = "main"
  /\ UNCHANGED nonHealthVars
  /\ LET res == BackendHealthResult(outcome, data, "main")
     IN /\ probes' = Append(probes, Probe(MainRequest, outcome, data, res))
        /\ mainResult' = res
        /\ IF res.status = "healthy"
           THEN /\ hpc' = "done"
                /\ multimodalResult' = res
                /\ inflight' = AwaitSettled(inflight, MainRequest)
                /\ UNCHANGED sent
           ELSE /\ hpc' = "test"
                /\ inflight' = AwaitSettled(inflight, MainRequest) \cup {TestRequest}
                /\ sent' = Append(sent, TestRequest)
                /\ UNCHANGED multimodalResult
  /\ UNCHANGED <<mpc, apc, mcpResult, allResult>>

\* checkMultimodalBackend: the probe of the test backend settles.
TestProbeSettles(outcome, data) ==
  /\ hpc = "test"
  /\ UNCHANGED nonHealthVars
  /\ LET res == BackendHealthResult(outcome, data, "test")
     IN /\ probes' = Append(probes, Probe(TestRequest, outcome, data, res))
        /\ multimodalResult' = IF res.status = "healthy" THEN res ELSE mainResult
  /\ hpc' = "done"
  /\ inflight' = AwaitSettled(inflight, TestRequest)
  /\ UNCHANGED <<mpc, apc, sent, mainResult, mcpResult, allResult>>

\* checkMCPBackend: its request settles.
MCPProbeSettles(outcome, data) ==
  /\ mpc = "fetch"
  /\ UNCHANGED nonHealthVars
  /\ LET res == MCPHealthResult(outcome, data)
     IN /\ probes' = Append(probes, Probe(MCPRequest, outcome, data, res))
        /\ mcpResult' = res
  /\ mpc' = "done"
  /\ inflight' = AwaitSettled(inflight, MCPRequest)
  /\ UNCHANGED <<hpc, apc, sent, mainResult, multimodalResult, allResult>>

\* Promise.allSettled resolves: both checks fulfilled (neither can reject).
AllServicesSettled ==
  /\ apc = "waiting"
  /\ UNCHANGED nonHealthVars
  /\ hpc = "done"
  /\ mpc = "done"
  /\ apc' = "done"
  /\ allResult' = [multimodal |-> multimodalResult, mcp |-> mcpResult]
  /\ UNCHANGED <<hpc, mpc, inflight, sent, probes, mainResult,
                 multimodalResult, mcpResult>>

\* ============================================== SearchHistory component
\* Queries are sequences of characters (as above); " " is white space.
RECURSIVE TrimStart(_)
TrimStart(s) ==
  IF s # <<>> /\ Head(s) = " " THEN TrimStart(Tail(s)) ELSE s

RECURSIVE TrimEnd(_)
TrimEnd(s) ==
  IF s # <<>> /\ s[Len(s)] = " " THEN TrimEnd(SubSeq(s, 1, Len(s) - 1)) ELSE s

\* String.prototype.trim
trim(s) == TrimEnd(TrimStart(s))

Range(s) == {s[i] : i \in 1..Len(s)}

\* Array.prototype.filter(item => item !== query)
Without(list, q) == SelectSeq(list, LAMBDA item : item # q)

\* Array.prototype.slice(0, n)
slice0(list, n) == SubSeq(list, 1, IF Len(list) < n THEN Len(list) ELSE n)

HISTORY_LIMIT == 10
FAVORITES_LIMIT == 5

\* The history a previous session saved holds HistoryPrefill entries, the
\* favorites it saved hold FavoritesPrefill entries.
HistoryPrefill == 9
FavoritesPrefill == 4

SavedQueries ==
  << <<"h1">>, <<"h2">>, <<"h3">>, <<"h4">>, <<"h5">>, <<"h6">>,
     <<"h7">>, <<"h8">>, <<"h9">>, <<"h10">> >>

SavedFavoriteQueries ==
  << <<"f1">>, <<"f2">>, <<"f3">>, <<"f4">>, <<"f5">> >>

savedHistoryChoices == {<<>>, SubSeq(SavedQueries, 1, HistoryPrefill)}
savedFavoritesChoices == {<<>>, SubSeq(SavedFavoriteQueries, 1, FavoritesPrefill)}

\* The five static popular searches, one token each.
popularSearches ==
  << <<"pop1">>, <<"pop2">>, <<"pop3">>, <<"pop4">>, <<"pop5">> >>

\* Values the parent passes as currentQuery, and the entries the user clicks.
TypedQueries == {<<>>, <<" ">>, <<"a">>}
ClickedQueries == {<<"a">>, <<"h1">>, <<"pop1">>}

newHistory_KeepDuplicate(history, q) == slice0(<<q>> \o history, HISTORY_LIMIT)
newHistory_Unbounded(history, q) == <<q>> \o Without(history, q)
newHistory_Appended(history, q) == slice0(Without(history, q) \o <<q>>, HISTORY_LIMIT)

\* addToHistory: [query, ...searchHistory.filter(...)].slice(0, 10)
newHistory(history, q) == slice0(<<q>> \o Without(history, q), HISTORY_LIMIT)

\* addToHistory returns early on a query that trims to the empty string.
IsBlank_Never(q) == FALSE
IsBlank(q) == trim(q) = <<>>

newFavorites_Unbounded(favs, q) ==
  IF q \in Range(favs) THEN Without(favs, q) ELSE favs \o <<q>>
newFavorites_NoIncludes(favs, q) == slice0(favs \o <<q>>, FAVORITES_LIMIT)

\* toggleFavorite: includes ? filter : [...favorites, query].slice(0, 5)
newFavorites(favs, q) ==
  IF q \in Range(favs)
    THEN Without(favs, q)
    ELSE slice0(favs \o <<q>>, FAVORITES_LIMIT)

NoToggle == [query |-> <<>>, wasFavorite |-> FALSE]

NotJustMounted == [fresh |-> FALSE, saved |-> <<>>]

InitHistory ==
  /\ shMounted = FALSE
  /\ searchHistory = <<>>
  /\ favorites = <<>>
  /\ isExpanded = FALSE
  /\ currentQuery = <<>>
  /\ storedHistory = <<>>
  /\ storedFavorites = <<>>
  /\ lastAdded = <<>>
  /\ lastToggle = NoToggle
  /\ justMounted = NotJustMounted

\* First render with prop cq, then both effects in declaration order.
\* savedHistory and savedFavorites are what localStorage holds from earlier
\* sessions.  The load effect queues the saved lists; the currentQuery
\* effect runs addToHistory in the closure of the first render, whose
\* searchHistory is the initial [], and its setSearchHistory is the later
\* one and wins.
Mount(cq, savedHistory, savedFavorites) ==
  /\ ~shMounted
  /\ shMounted' = TRUE
  /\ currentQuery' = cq
  /\ favorites' = savedFavorites
  /\ storedFavorites' = savedFavorites
  /\ IF cq # <<>> /\ ~IsBlank(cq)
       THEN /\ searchHistory' = newHistory(<<>>, cq)
            /\ storedHistory' = newHistory(<<>>, cq)
            /\ lastAdded' = cq
       ELSE /\ searchHistory' = savedHistory
            /\ storedHistory' = savedHistory
            /\ lastAdded' = IF savedHistory = <<>> THEN <<>> ELSE Head(savedHistory)
  /\ UNCHANGED <<isExpanded, lastToggle>>
  /\ justMounted' = [fresh |-> TRUE, saved |-> savedHistory]
  /\ UNCHANGED nonHistoryVars

\* The state change of addToHistory(q) in a render whose state is current.
addToHistory(q) ==
  IF IsBlank(q)
    THEN UNCHANGED <<searchHistory, storedHistory, lastAdded>>
    ELSE /\ searchHistory' = newHistory(searchHistory, q)
         /\ storedHistory' = newHistory(searchHistory, q)
         /\ lastAdded' = q

\* The parent re-renders with another currentQuery; the effect on
\* [currentQuery] runs.
CurrentQueryChanges(cq) ==
  /\ shMounted
  /\ cq # currentQuery
  /\ currentQuery' = cq
  /\ IF cq # <<>>
       THEN addToHistory(cq)
       ELSE UNCHANGED <<searchHistory, storedHistory, lastAdded>>
  /\ UNCHANGED <<shMounted, favorites, isExpanded, storedFavorites, lastToggle>>
  /\ justMounted' = NotJustMounted
  /\ UNCHANGED nonHistoryVars

\* Entries the open panel lists, any tab.
Listed == Range(searchHistory) \cup Range(favorites) \cup Range(popularSearches)

handleSearchSelect(q) ==
  /\ shMounted /\ isExpanded
  /\ q \in Listed
  /\ addToHistory(q)
  /\ isExpanded' = FALSE
  /\ UNCHANGED <<shMounted, favorites, currentQuery, storedFavorites, lastToggle>>
  /\ justMounted' = NotJustMounted
  /\ UNCHANGED nonHistoryVars

removeFromHistory(q) ==
  /\ shMounted /\ isExpanded
  /\ q \in Range(searchHistory)
  /\ searchHistory' = Without(searchHistory, q)
  /\ storedHistory' = Without(searchHistory, q)
  /\ UNCHANGED <<shMounted, favorites, isExpanded, currentQuery,
                 storedFavorites, lastAdded, lastToggle>>
  /\ justMounted' = NotJustMounted
  /\ UNCHANGED nonHistoryVars

clearHistory ==
  /\ shMounted /\ isExpanded
  /\ searchHistory # <<>>
  /\ searchHistory' = <<>>
  /\ storedHistory' = <<>>
  /\ UNCHANGED <<shMounted, favorites, isExpanded, currentQuery,
                 storedFavorites, lastAdded, lastToggle>>
  /\ justMounted' = NotJustMounted
  /\ UNCHANGED nonHistoryVars

toggleFavorite(q) ==
  /\ shMounted /\ isExpanded
  /\ q \in Listed
  /\ favorites' = newFavorites(favorites, q)
  /\ storedFavorites' = newFavorites(favorites, q)
  /\ lastToggle' = [query |-> q, wasFavorite |-> q \in Range(favorites)]
  /\ UNCHANGED <<shMounted, searchHistory, isExpanded, currentQuery,
                 storedHistory, lastAdded>>
  /\ justMounted' = NotJustMounted
  /\ UNCHANGED nonHistoryVars

\* The toggle button; the component renders nothing while it is collapsed
\* with both lists empty.
ToggleExpanded ==
  /\ shMounted
  /\ ~(~isExpanded /\ searchHistory = <<>> /\ favorites = <<>>)
  /\ isExpanded' = ~isExpanded
  /\ UNCHANGED <<shMounted, searchHistory, favorites, currentQuery,
                 storedHistory, storedFavorites, lastAdded, lastToggle>>
  /\ justMounted' = NotJustMounted
  /\ UNCHANGED nonHistoryVars

\* ================================================== MockSearchService
CACHE_LIMIT == 100
MOCK_HISTORY_LIMIT == 10
DEFAULT_PAGE_LIMIT == 20

\* The service has cached CachePrefill results before; at most MaxPending
\* search calls await simulateApiCall at a time.
CachePrefill == 98
MaxPending == 2

\* cacheKey: `${query}-${page}-${limit}-${sortBy}-${filterBy}`, with the
\* default limit, sortBy and filterBy.
cacheKey(q, page) == <<q, page, DEFAULT_PAGE_LIMIT, "relevance", "all">>

MockQueries == {<<"a">>, <<"b">>}
MockPages == {1, 2}
MockKeys == {cacheKey(q, page) : q \in MockQueries, page \in MockPages}

\* Map.prototype.has
MapHas(m, k) == k \in Range(m)

MapSet_MoveToEnd(m, k) == Append(Without(m, k), k)

\* Map.prototype.set: a new key goes last, a key already held keeps its place.
MapSet(m, k) == IF MapHas(m, k) THEN m ELSE Append(m, k)

\* Map.prototype.delete
MapDelete(m, k) == Without(m, k)

\* this.cache.keys().next().value
firstKey(m) == Head(m)

CacheFull_Above(m) == Len(m) > CACHE_LIMIT

\* this.cache.size >= 100
CacheFull(m) == Len(m) >= CACHE_LIMIT

\* searchHistory after a stored result: unshift a new non-empty query, keep 10.
mockHistoryAfter(history, q) ==
  IF q # <<>> /\ q \notin Range(history)
    THEN slice0(<<q>> \o history, MOCK_HISTORY_LIMIT)
    ELSE history

NoEviction == [key |-> <<>>, earliest |-> <<>>]

NoPending == [k \in MockKeys |-> 0]

PendingCount == LET RECURSIVE Sum(_)
                    Sum(S) == IF S = {} THEN 0
                              ELSE LET k == CHOOSE x \in S : TRUE
                                   IN pendingSearches[k] + Sum(S \ {k})
                IN Sum(MockKeys)

\* The service was constructed and has since been asked, in this order and
\* without waiting, twice for page 1 of a and once for each of the pages
\* 1..CachePrefill-1 of z; every call but the second has resolved.
PrefilledCache ==
  <<cacheKey(<<"a">>, 1)>> \o [i \in 1..(CachePrefill - 1) |-> cacheKey(<<"z">>, i)]

InitMock ==
  /\ cache = PrefilledCache
  /\ insertionOrder = PrefilledCache
  /\ mockHistory = << <<"z">>, <<"a">> >>
  /\ pendingSearches = [NoPending EXCEPT ![cacheKey(<<"a">>, 1)] = 1]
  /\ lastEvicted = NoEviction
  /\ lastReturn = "api"

\* search(q, {page}) up to its await: a cached result is returned at once,
\* otherwise the call waits for simulateApiCall.
MockSearch(q, page) ==
  LET k == cacheKey(q, page) IN
  /\ IF MapHas(cache, k)
       THEN /\ lastReturn' = "cache"
            /\ UNCHANGED pendingSearches
       ELSE /\ PendingCount < MaxPending
            /\ pendingSearches' = [pendingSearches EXCEPT ![k] = @ + 1]
            /\ UNCHANGED lastReturn
  /\ UNCHANGED <<cache, mockHistory, insertionOrder, lastEvicted>>
  /\ UNCHANGED nonMockVars

\* simulateApiCall resolves for a waiting call: evict when full, store the
\* result, update searchHistory, return.
MockSearchResolves(k) ==
  LET evict == CacheFull(cache)
      kept == IF evict THEN MapDelete(cache, firstKey(cache)) ELSE cache
      order == IF evict THEN Without(insertionOrder, firstKey(cache))
                        ELSE insertionOrder
  IN
  /\ k \in MockKeys
  /\ pendingSearches[k] > 0
  /\ pendingSearches' = [pendingSearches EXCEPT ![k] = @ - 1]
  /\ cache' = MapSet(kept, k)
  /\ insertionOrder' = IF k \in Range(order) THEN order ELSE Append(order, k)
  /\ lastEvicted' = IF evict
                      THEN [key |-> firstKey(cache), earliest |-> Head(insertionOrder)]
                      ELSE lastEvicted
  /\ mockHistory' = mockHistoryAfter(mockHistory, k[1])
  /\ lastReturn' = "api"
  /\ UNCHANGED nonMockVars

\* simulateApiCall throws for a waiting call: the error is rethrown.
MockSearchRejects(k) ==
  /\ k \in MockKeys
  /\ pendingSearches[k] > 0
  /\ pendingSearches' = [pendingSearches EXCEPT ![k] = @ - 1]
  /\ lastReturn' = "error"
  /\ UNCHANGED <<cache, mockHistory, insertionOrder, lastEvicted>>
  /\ UNCHANGED nonMockVars

clearCache ==
  /\ cache # <<>>
  /\ cache' = <<>>
  /\ insertionOrder' = <<>>
  /\ UNCHANGED <<mockHistory, pendingSearches, lastEvicted, lastReturn>>
  /\ UNCHANGED nonMockVars

\* ================================================================ App
\* At most MaxAppCalls handler calls are started; a chat answer has at most
\* MaxAnswerLen characters.
MaxAppCalls == 2
MaxAnswerLen == 2

\* imageSearchError: null, or the message of the caught error.
NullError == [set |-> FALSE, message |-> <<>>]
ErrorText(e) == [set |-> TRUE, message |-> e.message]

\* The texts the App puts into messages, one token per fixed phrase.
EMPTY_STATE_TEXT == <<"no images found, try another query">>
FoundText(n) == <<ToString(n), "images found">>
MockFoundText(n) == <<ToString(n), "images found", "(development mock data)">>
ChatErrorText(e) ==
  <<"sorry, a temporary problem, try again later", "error:">> \o e.message

\* throw new Error(<image search failed>) on data.success false
SearchNotSuccessful == [name |-> "Error", message |-> <<"image search failed">>]

Message(role, content) ==
  [role |-> role, content |-> content, error |-> FALSE, typing |-> FALSE,
   withImages |-> FALSE, images |-> 0]

UserMessage(q) == Message("user", q)

TypingPlaceholder == [Message("assistant", <<>>) EXCEPT !.typing = TRUE]

SearchMessage_ErrorFlag(n) ==
  [Message("assistant", IF n > 0 THEN FoundText(n) ELSE EMPTY_STATE_TEXT)
     EXCEPT !.withImages = TRUE, !.images = n, !.error = TRUE]

\* The assistant message of a search that answered with n images.
SearchMessage(n) ==
  [Message("assistant", IF n > 0 THEN FoundText(n) ELSE EMPTY_STATE_TEXT)
     EXCEPT !.withImages = TRUE, !.images = n]

MockSearchMessage(n) ==
  [Message("assistant", IF n > 0 THEN MockFoundText(n) ELSE EMPTY_STATE_TEXT)
     EXCEPT !.withImages = TRUE, !.images = n]

\* The errorMessage of the catch block of searchImages.
SearchErrorMessage ==
  [Message("assistant", EMPTY_STATE_TEXT)
     EXCEPT !.withImages = TRUE, !.images = 0, !.error = TRUE]

\* The errorMessage of the catch block of sendChatMessage.
ChatErrorMessage(e) ==
  [Message("assistant", ChatErrorText(e)) EXCEPT !.error = TRUE]

\* The text of a message the render of chatMessages puts on the screen: the
\* content of a user message, and the content of an assistant message only
\* under message.role === 'assistant' && !message.error.
RenderedText(m) ==
  IF m.role = "user" THEN m.content
  ELSE IF m.role = "assistant" /\ ~m.error THEN m.content
  ELSE <<>>

\* What ImageSearchAPI.searchImages settles with.
ImageData ==
  { [success |-> FALSE, images |-> 0, total_count |-> 0, has_more |-> FALSE],
    [success |-> TRUE, images |-> 0, total_count |-> 0, has_more |-> FALSE],
    [success |-> TRUE, images |-> 1, total_count |-> 0, has_more |-> FALSE],
    [success |-> TRUE, images |-> 1, total_count |-> 3, has_more |-> TRUE],
    [success |-> TRUE, images |-> 0, total_count |-> 3, has_more |-> TRUE] }
ImageRejections ==
  {ImageSearchFailure(HttpError), ImageSearchFailure(FetchError("timeout"))}

\* What simulateApiCall settles with: a result, or the simulated error.
MockData ==
  { [results |-> 0, total |-> 0, hasMore |-> FALSE],
    [results |-> 1, total |-> 3, hasMore |-> TRUE] }

\* What ChatAPI.sendMessage settles with.
AnswerText == <<"h", "e", "l", "l", "o">>
ChatAnswers == {<<>>, SubSeq(AnswerText, 1, MaxAnswerLen)}
ChatRejections == {ChatFailure(HttpError), ChatFailure(FetchError("timeout"))}

AppInputs == {<<>>, <<" ">>, ExampleImageQuery, ExampleChatQuery}

Snapshot ==
  [results |-> imageSearchResults, total |-> totalImageCount,
   hasMore |-> hasMoreImages, page |-> currentImagePage,
   messages |-> chatMessages, error |-> imageSearchError]

InitialSnapshot ==
  [results |-> <<>>, total |-> 0, hasMore |-> FALSE, page |-> 1,
   messages |-> <<>>, error |-> NullError]

NoHandler ==
  [kind |-> "none", stage |-> "none", query |-> <<>>, page |-> 1,
   append |-> FALSE, answer |-> <<>>, typed |-> 0, error |-> NoError,
   before |-> InitialSnapshot]

NoCall ==
  [kind |-> "none", append |-> FALSE, failed |-> FALSE, error |-> NoError,
   images |-> 0, before |-> InitialSnapshot]

\* The record of a finished call h.
Finished(h, failed, e, n) ==
  [kind |-> h.kind, append |-> h.append, failed |-> failed, error |-> e,
   images |-> n, before |-> h.before]

InitApp ==
  /\ devMode \in BOOLEAN
  /\ inputValue = <<>>
  /\ chatMessages = <<>>
  /\ imageSearchResults = <<>>
  /\ imageSearchLoading = FALSE
  /\ imageSearchError = NullError
  /\ hasMoreImages = FALSE
  /\ totalImageCount = 0
  /\ currentImagePage = 1
  /\ hasSearched = FALSE
  /\ isResponding = FALSE
  /\ handler = NoHandler
  /\ appCalls = 0
  /\ lastCall = NoCall

\* handleInput: the user edits the input field.
handleInput(v) ==
  /\ v # inputValue
  /\ inputValue' = v
  /\ UNCHANGED <<devMode, chatMessages, imageSearchResults, imageSearchLoading,
                 imageSearchError, hasMoreImages, totalImageCount,
                 currentImagePage, hasSearched, isResponding, handler,
                 appCalls, lastCall>>
  /\ UNCHANGED nonAppVars

\* searchImages(q, page, append) up to its await.
searchImagesStarts(q, page, append) ==
  /\ imageSearchLoading' = TRUE
  /\ hasSearched' = TRUE
  /\ imageSearchError' = IF append THEN imageSearchError ELSE NullError
  /\ currentImagePage' = IF append THEN currentImagePage ELSE 1
  /\ handler' = [NoHandler EXCEPT !.kind = "image", !.stage = "api",
                                  !.query = q, !.page = page,
                                  !.append = append, !.before = Snapshot]

\* handleSubmit up to the first await of the handler it calls.
handleSubmit ==
  LET q == trim(inputValue) IN
  /\ handler = NoHandler
  /\ appCalls < MaxAppCalls
  /\ q # <<>>
  /\ appCalls' = appCalls + 1
  /\ IF hasImageKeyword(q)
       THEN /\ chatMessages' = Append(chatMessages, UserMessage(q))
            /\ searchImagesStarts(q, 1, FALSE)
            /\ UNCHANGED isResponding
       ELSE /\ isResponding' = TRUE
            /\ chatMessages' = chatMessages \o <<UserMessage(q), TypingPlaceholder>>
            /\ handler' = [NoHandler EXCEPT !.kind = "chat", !.stage = "api",
                                            !.query = q, !.before = Snapshot]
            /\ UNCHANGED <<imageSearchLoading, hasSearched, imageSearchError,
                           currentImagePage>>
  /\ UNCHANGED <<devMode, inputValue, imageSearchResults, hasMoreImages,
                 totalImageCount, lastCall>>
  /\ UNCHANGED nonAppVars

loadMoreImages ==
  /\ handler = NoHandler
  /\ appCalls < MaxAppCalls
  /\ ~imageSearchLoading /\ hasMoreImages /\ trim(inputValue) # <<>>
  /\ appCalls' = appCalls + 1
  /\ searchImagesStarts(trim(inputValue), currentImagePage + 1, TRUE)
  /\ UNCHANGED <<devMode, inputValue, chatMessages, imageSearchResults,
                 hasMoreImages, totalImageCount, isResponding, lastCall>>
  /\ UNCHANGED nonAppVars

\* The handler h returns: finally, and for a submitted query the rest of
\* handleSubmit, which clears the input field.
HandlerReturns(h, failed, e, n) ==
  /\ handler' = NoHandler
  /\ lastCall' = Finished(h, failed, e, n)
  /\ inputValue' = IF h.append THEN inputValue ELSE <<>>

FailedResults_Cleared(append, prev) == <<>>

\* imageSearchResults after the catch block.
FailedResults(append, prev) == IF append THEN prev ELSE <<>>

PageImages(n, page) == [i \in 1..n |-> page]

\* ImageSearchAPI.searchImages resolves with data.
ImageSearchResolves(data) ==
  LET h == handler
      newResults == PageImages(data.images, h.page)
  IN
  /\ h.kind = "image" /\ h.stage = "api"
  /\ IF data.success
       THEN /\ imageSearchResults' =
                 IF h.append THEN imageSearchResults \o newResults ELSE newResults
            /\ totalImageCount' =
                 IF data.total_count # 0 THEN data.total_count ELSE Len(newResults)
            /\ hasMoreImages' = data.has_more
            /\ currentImagePage' = IF h.append THEN h.page ELSE currentImagePage
            /\ chatMessages' =
                 IF h.append THEN chatMessages
                 ELSE Append(chatMessages, SearchMessage(Len(newResults)))
            /\ imageSearchLoading' = FALSE
            /\ HandlerReturns(h, FALSE, NoError, Len(newResults))
            /\ UNCHANGED imageSearchError
       ELSE /\ imageSearchError' = ErrorText(SearchNotSuccessful)
            /\ imageSearchResults' = FailedResults(h.append, imageSearchResults)
            /\ totalImageCount' = IF h.append THEN totalImageCount ELSE 0
            /\ hasMoreImages' = IF h.append THEN hasMoreImages ELSE FALSE
            /\ chatMessages' =
                 IF h.append THEN chatMessages
                 ELSE Append(chatMessages, SearchErrorMessage)
            /\ UNCHANGED currentImagePage
            /\ IF devMode
                 THEN /\ handler' = [h EXCEPT !.stage = "mock",
                                              !.error = SearchNotSuccessful]
                      /\ UNCHANGED <<imageSearchLoading, lastCall, inputValue>>
                 ELSE /\ imageSearchLoading' = FALSE
                      /\ HandlerReturns(h, TRUE, SearchNotSuccessful, 0)
  /\ UNCHANGED <<devMode, hasSearched, isResponding, appCalls>>
  /\ UNCHANGED nonAppVars

\* ImageSearchAPI.searchImages rejects with e: the catch block.
ImageSearchRejects(e) ==
  LET h == handler IN
  /\ h.kind = "image" /\ h.stage = "api"
  /\ imageSearchError' = ErrorText(e)
  /\ imageSearchResults' = FailedResults(h.append, imageSearchResults)
  /\ totalImageCount' = IF h.append THEN totalImageCount ELSE 0
  /\ hasMoreImages' = IF h.append THEN hasMoreImages ELSE FALSE
  /\ chatMessages' =
       IF h.append THEN chatMessages ELSE Append(chatMessages, SearchErrorMessage)
  /\ IF devMode
       THEN /\ handler' = [h EXCEPT !.stage = "mock", !.error = e]
            /\ UNCHANGED <<imageSearchLoading, lastCall, inputValue>>
       ELSE /\ imageSearchLoading' = FALSE
            /\ HandlerReturns(h, TRUE, e, 0)
  /\ UNCHANGED <<devMode, currentImagePage, hasSearched, isResponding, appCalls>>
  /\ UNCHANGED nonAppVars

\* Development build: simulateApiCall resolves with mock data.
MockDataResolves(mock) ==
  LET h == handler
      mockResults == PageImages(mock.results, h.page)
  IN
  /\ h.kind = "image" /\ h.stage = "mock"
  /\ imageSearchResults' =
       IF h.append THEN imageSearchResults \o mockResults ELSE mockResults
  /\ totalImageCount' = mock.total
  /\ hasMoreImages' = mock.hasMore
  /\ imageSearchError' = NullError
  /\ chatMessages' =
       IF h.append THEN chatMessages
       ELSE Append(chatMessages, MockSearchMessage(Len(mockResults)))
  /\ imageSearchLoading' = FALSE
  /\ HandlerReturns(h, TRUE, h.error, Len(mockResults))
  /\ UNCHANGED <<devMode, currentImagePage, hasSearched, isResponding, appCalls>>
  /\ UNCHANGED nonAppVars

\* Development build: simulateApiCall throws; the error is only logged.
MockDataRejects ==
  LET h == handler IN
  /\ h.kind = "image" /\ h.stage = "mock"
  /\ imageSearchLoading' = FALSE
  /\ HandlerReturns(h, TRUE, h.error, 0)
  /\ UNCHANGED <<devMode, chatMessages, imageSearchResults, imageSearchError,
                 hasMoreImages, totalImageCount, currentImagePage, hasSearched,
                 isResponding, appCalls>>
  /\ UNCHANGED nonAppVars

\* prev.map((msg, idx) => idx === prev.length - 1 ? {...msg, ...} : msg)
WithLast(messages, content, typing) ==
  [i \in 1..Len(messages) |->
     IF i = Len(messages)
       THEN [messages[i] EXCEPT !.content = content, !.typing = typing]
       ELSE messages[i]]

\* The typing loop has shown all of the answer: the final update, finally,
\* and the rest of handleSubmit.
ChatCompletes(h, answer) ==
  /\ chatMessages' = WithLast(chatMessages, answer, FALSE)
  /\ isResponding' = FALSE
  /\ HandlerReturns(h, FALSE, NoError, 0)

\* ChatAPI.sendMessage resolves: the typing loop shows the first character
\* and waits.
ChatResolves(answer) ==
  LET h == handler IN
  /\ h.kind = "chat" /\ h.stage = "api"
  /\ IF Len(answer) = 0
       THEN ChatCompletes(h, answer)
       ELSE /\ chatMessages' = WithLast(chatMessages, SubSeq(answer, 1, 1), TRUE)
            /\ handler' = [h EXCEPT !.stage = "typing", !.answer = answer,
                                    !.typed = 1]
            /\ UNCHANGED <<isResponding, lastCall, inputValue>>
  /\ UNCHANGED <<devMode, imageSearchResults, imageSearchLoading,
                 imageSearchError, hasMoreImages, totalImageCount,
                 currentImagePage, hasSearched, appCalls>>
  /\ UNCHANGED nonAppVars

\* The 20 ms wait of the typing loop is over.
TypingStep ==
  LET h == handler IN
  /\ h.kind = "chat" /\ h.stage = "typing"
  /\ IF h.typed < Len(h.answer)
       THEN /\ chatMessages' =
                 WithLast(chatMessages, SubSeq(h.answer, 1, h.typed + 1), TRUE)
            /\ handler' = [h EXCEPT !.typed = h.typed + 1]
            /\ UNCHANGED <<isResponding, lastCall, inputValue>>
       ELSE ChatCompletes(h, h.answer)
  /\ UNCHANGED <<devMode, imageSearchResults, imageSearchLoading,
                 imageSearchError, hasMoreImages, totalImageCount,
                 currentImagePage, hasSearched, appCalls>>
  /\ UNCHANGED nonAppVars

\* ChatAPI.sendMessage rejects with e: the catch block of sendChatMessage.
ChatRejects(e) ==
  LET h == handler IN
  /\ h.kind = "chat" /\ h.stage = "api"
  /\ chatMessages' = Append(chatMessages, ChatErrorMessage(e))
  /\ isResponding' = FALSE
  /\ HandlerReturns(h, TRUE, e, 0)
  /\ UNCHANGED <<devMode, imageSearchResults, imageSearchLoading,
                 imageSearchError, hasMoreImages, totalImageCount,
                 currentImagePage, hasSearched, appCalls>>
  /\ UNCHANGED nonAppVars

\* ====================================== aside and Header on window resize
ASIDE_BREAKPOINT == 1430
HEADER_RESIZE_BREAKPOINT == 850

\* Widths on both sides of each breakpoint.
WindowWidths ==
  {HEADER_RESIZE_BREAKPOINT, HEADER_RESIZE_BREAKPOINT + 1,
   ASIDE_BREAKPOINT, ASIDE_BREAKPOINT + 1}

\* App handleResize: const large = window.innerWidth > 1430
AsideLarge(w) == w > ASIDE_BREAKPOINT

HandleResizeOpen_AlwaysOpen(large, closed) == large

\* App handleResize: setIsOpen(!manualClosed) when large, setIsOpen(false)
\* otherwise.
HandleResizeOpen(large, closed) == IF large THEN ~closed ELSE FALSE

\* Header handleResize: const large = window.innerWidth > 850
HeaderLarge(w) == w > HEADER_RESIZE_BREAKPOINT

InitLayout ==
  /\ innerWidth = ASIDE_BREAKPOINT + 1
  /\ appMounted = FALSE
  /\ isOpen = TRUE
  /\ isLargeScreen = FALSE
  /\ manualClosed = FALSE
  /\ headerMounted = FALSE
  /\ headerIsLargeScreen = FALSE
  /\ lastLargeToggle = "none"
  /\ lastLayoutEvent = "none"

\* App mounts: the useState initial values, then the effect registers
\* handleResize and runs it once.
AppMounts ==
  /\ ~appMounted
  /\ appMounted' = TRUE
  /\ manualClosed' = FALSE
  /\ isLargeScreen' = AsideLarge(innerWidth)
  /\ isOpen' = HandleResizeOpen(AsideLarge(innerWidth), FALSE)
  /\ lastLayoutEvent' = "mount"
  /\ UNCHANGED <<innerWidth, headerMounted, headerIsLargeScreen, lastLargeToggle>>
  /\ UNCHANGED nonLayoutVars

\* Header mounts: the first render starts from useState(window.innerWidth >
\* 1430), then the effect registers handleResize and runs it once; the value
\* handleResize sets is the state after the mount.
HeaderMounts ==
  /\ ~headerMounted
  /\ headerMounted' = TRUE
  /\ headerIsLargeScreen' = HeaderLarge(innerWidth)
  /\ lastLayoutEvent' = "mount"
  /\ UNCHANGED <<innerWidth, appMounted, isOpen, isLargeScreen, manualClosed,
                 lastLargeToggle>>
  /\ UNCHANGED nonLayoutVars

\* The window is resized to width w: every registered handleResize runs.
WindowResizes(w) ==
  /\ w # innerWidth
  /\ innerWidth' = w
  /\ IF appMounted
       THEN /\ isLargeScreen' = AsideLarge(w)
            /\ isOpen' = HandleResizeOpen(AsideLarge(w), manualClosed)
       ELSE UNCHANGED <<isLargeScreen, isOpen>>
  /\ headerIsLargeScreen' =
       IF headerMounted THEN HeaderLarge(w) ELSE headerIsLargeScreen
  /\ lastLayoutEvent' = "resize"
  /\ UNCHANGED <<appMounted, manualClosed, headerMounted, lastLargeToggle>>
  /\ UNCHANGED nonLayoutVars

ManualClosedAfter_Small(large, open, closed) == open

\* toggleAside: setManualClosed(!isOpen === false) on a large screen only.
ManualClosedAfter(large, open, closed) == IF large THEN open ELSE closed

\* toggleAside, and, when manualClosed has changed, the effect on
\* [manualClosed], which registers a new handleResize and runs it once.
toggleAside ==
  LET closed == ManualClosedAfter(isLargeScreen, isOpen, manualClosed)
      rerun == closed # manualClosed
  IN
  /\ appMounted
  /\ manualClosed' = closed
  /\ isOpen' = IF rerun
                 THEN HandleResizeOpen(AsideLarge(innerWidth), closed)
                 ELSE ~isOpen
  /\ isLargeScreen' = IF rerun THEN AsideLarge(innerWidth) ELSE isLargeScreen
  /\ lastLargeToggle' =
       IF innerWidth > ASIDE_BREAKPOINT
         THEN (IF isOpen THEN "closed" ELSE "opened")
         ELSE lastLargeToggle
  /\ lastLayoutEvent' = "toggle"
  /\ UNCHANGED <<innerWidth, appMounted, headerMounted, headerIsLargeScreen>>
  /\ UNCHANGED nonLayoutVars

\* ================================================================ Modal
\* The parent renders the Modal at most MaxRenders times.
MaxRenders == 4

\* getFocusableElements(modalRef.current), in document order: the close
\* button, a control of the body, the confirm button of the footer.
focusableEls == <<"close", "option", "confirm">>
firstEl == focusableEls[1]
lastEl == focusableEls[Len(focusableEls)]

\* Focusable elements of the page outside the modal.
OutsideEls == {"opener", "textarea"}

NoKey == [key |-> "none", shiftKey |-> FALSE, from |-> "body", open |-> FALSE,
          cancelled |-> FALSE]

RemoveListener_Keep(ls, h) == ls

\* document.removeEventListener("keydown", h)
RemoveListener(ls, h) == ls \ {h}

\* document.addEventListener("keydown", h)
AddListener(ls, h) == ls \cup {h}

IndexOf(el) == CHOOSE i \in 1..Len(focusableEls) : focusableEls[i] = el

TabTarget_NoWrap(shiftKey, from) == from

\* Where a Tab keydown that handleKeyDown sees leaves the focus: the wrap of
\* the handler at the ends of the list, the browser's neighbour otherwise.
TabTarget(shiftKey, from) ==
  IF from \notin Range(focusableEls) THEN from
  ELSE IF shiftKey
    THEN (IF from = firstEl THEN lastEl ELSE focusableEls[IndexOf(from) - 1])
    ELSE (IF from = lastEl THEN firstEl ELSE focusableEls[IndexOf(from) + 1])

InitModal ==
  /\ modalOpen = FALSE
  /\ onCancelId = 0
  /\ listeners = {}
  /\ activeElement = "body"
  /\ lastFocusedElement = "null"
  /\ restorePending = FALSE
  /\ closedHidden = FALSE
  /\ focusBeforeOpen = "body"
  /\ modalPhase = "idle"
  /\ lastKey = NoKey

\* The parent renders again with isOpen = open while active has the focus:
\* onCancel is a new inline function, so handleKeyDown is a new callback and
\* the effect on [isOpen, handleKeyDown] runs: first the cleanup of the
\* previous run, then the body.
Render(open, active) ==
  LET cleaned == RemoveListener(listeners, onCancelId)
      next == onCancelId + 1
  IN
  /\ onCancelId < MaxRenders
  /\ onCancelId' = next
  /\ modalOpen' = open
  /\ IF open
       THEN /\ lastFocusedElement' = active
            /\ listeners' = AddListener(cleaned, next)
            /\ activeElement' = firstEl
            /\ UNCHANGED restorePending
       ELSE /\ listeners' = RemoveListener(cleaned, next)
            /\ restorePending' = TRUE
            /\ activeElement' =
                 IF closedHidden /\ active \in Range(focusableEls)
                   THEN "body" ELSE active
            /\ UNCHANGED lastFocusedElement

\* The parent closes the modal (onCancel or onConfirm) while active has the
\* focus.
Close(active) ==
  /\ Render(FALSE, active)
  /\ modalPhase' = "closing"
  /\ UNCHANGED focusBeforeOpen

\* The user moves the focus to an element outside the closed modal.
FocusOutside(el) ==
  /\ ~modalOpen /\ ~restorePending
  /\ el # activeElement
  /\ activeElement' = el
  /\ modalPhase' = "idle"
  /\ lastKey' = NoKey
  /\ UNCHANGED <<modalOpen, onCancelId, listeners, lastFocusedElement,
                 restorePending, closedHidden, focusBeforeOpen>>
  /\ UNCHANGED nonModalVars

\* The parent sets isOpen to true. The first opening fixes what the style
\* sheet does with the closed modal.
OpenModal(hidden) ==
  /\ ~modalOpen /\ ~restorePending
  /\ lastFocusedElement = "null" \/ hidden = closedHidden
  /\ closedHidden' = hidden
  /\ Render(TRUE, activeElement)
  /\ focusBeforeOpen' = activeElement
  /\ modalPhase' = "open"
  /\ lastKey' = NoKey
  /\ UNCHANGED nonModalVars

\* The parent renders again for a reason of its own, isOpen unchanged.
ParentRerenders ==
  /\ ~restorePending
  /\ Render(modalOpen, activeElement)
  /\ modalPhase' = IF modalOpen THEN "open" ELSE "idle"
  /\ lastKey' = NoKey
  /\ UNCHANGED <<closedHidden, focusBeforeOpen>>
  /\ UNCHANGED nonModalVars

\* The user clicks a control inside the open modal: the control takes the
\* focus; the close button calls onCancel, the confirm button onConfirm, and
\* a control of the body changes state of the parent (as onSelect does).
ClickInside(el) ==
  /\ modalOpen
  /\ el \in Range(focusableEls)
  /\ IF el = "option"
       THEN /\ Render(TRUE, el)
            /\ modalPhase' = "open"
            /\ UNCHANGED focusBeforeOpen
       ELSE Close(el)
  /\ lastKey' = NoKey
  /\ UNCHANGED closedHidden
  /\ UNCHANGED nonModalVars

\* handleOverlayClick: a mousedown on the overlay calls onCancel.
ClickOverlay ==
  /\ modalOpen
  /\ Close("body")
  /\ lastKey' = NoKey
  /\ UNCHANGED closedHidden
  /\ UNCHANGED nonModalVars

\* A keydown event on document: every registered handleKeyDown runs; with no
\* listener the browser alone handles the key.
KeyDown(key, shiftKey) ==
  LET handled == listeners # {} IN
  /\ ~restorePending
  /\ activeElement \in Range(focusableEls) \/ ~modalOpen
  /\ lastKey' = [key |-> key, shiftKey |-> shiftKey, from |-> activeElement,
                 open |-> modalOpen, cancelled |-> handled /\ key = "Escape"]
  /\ IF handled /\ key = "Escape"
       THEN Close(activeElement)
       ELSE /\ activeElement' =
                 IF key = "Tab" /\ modalOpen
                   THEN TabTarget(shiftKey, activeElement)
                   ELSE activeElement
            /\ UNCHANGED <<modalOpen, onCancelId, listeners, lastFocusedElement,
                           restorePending, focusBeforeOpen, modalPhase>>
  /\ UNCHANGED closedHidden
  /\ UNCHANGED nonModalVars

\* The timer of the closed branch fires: lastFocusedElement.current?.focus().
\* The call changes nothing on body, which is not focusable, and on an
\* element that the closed modal hides.
RestoreFocus ==
  /\ restorePending
  /\ restorePending' = FALSE
  /\ activeElement' =
       IF lastFocusedElement \in {"null", "body"} THEN activeElement
       ELSE IF lastFocusedElement \in Range(focusableEls) /\ closedHidden
         THEN activeElement
       ELSE lastFocusedElement
  /\ modalPhase' = IF modalPhase = "closing" THEN "restored" ELSE "idle"
  /\ lastKey' = NoKey
  /\ UNCHANGED <<modalOpen, onCancelId, listeners, lastFocusedElement,
                 closedHidden, focusBeforeOpen>>
  /\ UNCHANGED nonModalVars

vars == <<searchVars, healthVars, historyVars, mockVars, appVars, layoutVars,
          modalVars>>

Init ==
  /\ InitSearch /\ InitHealth /\ InitHistory /\ InitMock /\ InitApp
  /\ InitLayout /\ InitModal

Next ==
  \/ \E q \in Queries : Search(q)
  \/ \E o \in FetchOutcomes, d \in ImageBodies : ImgFetch(o, d)
  \/ ImgDelay
  \/ \E o \in FetchOutcomes : ChatMultimodal(o)
  \/ \E o \in FetchOutcomes : ChatMCP(o)

Spec == Init /\ [][Next]_vars

HealthNext ==
  \/ CheckAllServices
  \/ \E o \in FetchOutcomes, d \in HealthBodies : MainProbeSettles(o, d)
  \/ \E o \in FetchOutcomes, d \in HealthBodies : TestProbeSettles(o, d)
  \/ \E o \in FetchOutcomes, d \in HealthBodies : MCPProbeSettles(o, d)
  \/ AllServicesSettled

HealthSpec == Init /\ [][HealthNext]_vars

HistoryNext ==
  \/ \E cq \in TypedQueries, h \in savedHistoryChoices,
          f \in savedFavoritesChoices : Mount(cq, h, f)
  \/ \E cq \in TypedQueries : CurrentQueryChanges(cq)
  \/ \E q \in ClickedQueries : handleSearchSelect(q)
  \/ \E q \in ClickedQueries : removeFromHistory(q)
  \/ clearHistory
  \/ \E q \in ClickedQueries : toggleFavorite(q)
  \/ ToggleExpanded

HistorySpec == Init /\ [][HistoryNext]_vars

MockNext ==
  \/ \E q \in MockQueries, page \in MockPages : MockSearch(q, page)
  \/ \E k \in MockKeys : MockSearchResolves(k)
  \/ \E k \in MockKeys : MockSearchRejects(k)
  \/ clearCache

MockSpec == Init /\ [][MockNext]_vars

AppNext ==
  \/ \E v \in AppInputs : handleInput(v)
  \/ handleSubmit
  \/ loadMoreImages
  \/ \E data \in ImageData : ImageSearchResolves(data)
  \/ \E e \in ImageRejections : ImageSearchRejects(e)
  \/ \E mock \in MockData : MockDataResolves(mock)
  \/ MockDataRejects
  \/ \E answer \in ChatAnswers : ChatResolves(answer)
  \/ TypingStep
  \/ \E e \in ChatRejections : ChatRejects(e)

AppSpec == Init /\ [][AppNext]_vars

LayoutNext ==
  \/ AppMounts
  \/ HeaderMounts
  \/ \E w \in WindowWidths : WindowResizes(w)
  \/ toggleAside

LayoutSpec == Init /\ [][LayoutNext]_vars

ModalNext ==
  \/ \E el \in OutsideEls : FocusOutside(el)
  \/ \E hidden \in BOOLEAN : OpenModal(hidden)
  \/ ParentRerenders
  \/ \E el \in Range(focusableEls) : ClickInside(el)
  \/ ClickOverlay
  \/ \E key \in {"Escape", "Tab", "Enter"}, shiftKey \in BOOLEAN : KeyDown(key, shiftKey)
  \/ RestoreFocus

ModalSpec == Init /\ [][ModalNext]_vars

\* ===================================================================== claims
IsRequest(i) == log[i].kind = "request"
RequestsTo(url) == {i \in 1..Len(log) : IsRequest(i) /\ log[i].url = url}
RequestsOn(path) == {i \in 1..Len(log) : IsRequest(i) /\ log[i].path = path}
ImageCall == calls = <<"ImageSearchAPI.searchImages">>
ChatCall == calls = <<"ChatAPI.sendMessage">>
Settled == pc \in {"resolved", "rejected"}
UnreachableOutcomes == {"failed_to_fetch", "conn_refused", "timeout"}

\* The query holds keyword kw at offset i, compared character by character
\* without regard to case.
MatchesAt(q, kw, i) ==
  /\ i + Len(kw) <= Len(q)
  /\ \A j \in 1..Len(kw) : LowerChar(q[i + j]) = LowerChar(kw[j])
ContainsKeyword(q) ==
  \E k \in 1..Len(imageKeywords) :
     \E i \in 0..Len(q) : MatchesAt(q, imageKeywords[k], i)

C2_SecondaryTried ==
  ( /\ ImageCall
    /\ pc = "rejected"
    /\ \A i \in RequestsTo(MULTIMODAL_BASE_URL) : log[i].outcome = "http500" )
  => RequestsTo(TEST_BACKEND_URL) # {}

C2_Witness ==
  /\ ImageCall
  /\ pc = "rejected"
  /\ Cardinality(RequestsTo(MULTIMODAL_BASE_URL)) = 2
  /\ \A i \in RequestsTo(MULTIMODAL_BASE_URL) : log[i].outcome = "http500"
  /\ RequestsTo(TEST_BACKEND_URL) # {}

\* Every request of the call found its URL unreachable.
AllUnreachable ==
  /\ Len(log) > 0
  /\ \A i \in 1..Len(log) : IsRequest(i) /\ log[i].outcome \in UnreachableOutcomes

\* C3 as stated: with both URLs unreachable the image search rejects with a
\* message that covers the failure of every URL tried.
C3_AggregatedMessage ==
  (ImageCall /\ Settled /\ AllUnreachable) =>
    /\ pc = "rejected"
    /\ \A i \in 1..Len(log) :
         Includes(thrown.message, FetchError(log[i].outcome).message)

\* C3 amended: with both URLs unreachable the image search rejects, never
\* resolves, and the message is the fixed prefix followed by the message of
\* the last failure only.
C3_LastErrorMessage ==
  (ImageCall /\ Settled /\ AllUnreachable) =>
    /\ pc = "rejected"
    /\ result = NoResult
    /\ thrown.message =
         <<"image search failed:">> \o FetchError(log[Len(log)].outcome).message

C3_Witness ==
  /\ ImageCall
  /\ pc = "rejected"
  /\ Len(log) = 2
  /\ log[1].outcome = "timeout"
  /\ log[2].outcome = "failed_to_fetch"
  /\ thrown.message = <<"image search failed:", "Failed to fetch">>

\* C4: a connection failure or timeout on a URL is the last event of that
\* URL (no retry, no retry delay), and after one on the primary URL the next
\* event is a request to the secondary URL.
C4_BreakOnConnectionError ==
  ImageCall =>
    \A i \in 1..Len(log) :
      (IsRequest(i) /\ log[i].outcome \in UnreachableOutcomes) =>
        /\ \A j \in (i + 1)..Len(log) : log[j].url # log[i].url
        /\ log[i].url = MULTIMODAL_BASE_URL =>
             IF i < Len(log)
             THEN IsRequest(i + 1) /\ log[i + 1].url = TEST_BACKEND_URL
             ELSE pc = "img_fetch" /\ backendUrls[urlIdx] = TEST_BACKEND_URL

C4_Witness ==
  /\ ImageCall
  /\ Len(log) = 2
  /\ log[1] = RequestEvent(MULTIMODAL_BASE_URL, SEARCH_IMAGES_PATH, "timeout")
  /\ log[2].url = TEST_BACKEND_URL

\* C5: one image search sends at most RETRY_COUNT + 1 requests to each URL
\* and at most 2 * (RETRY_COUNT + 1) requests in all.
C5_AttemptsBounded ==
  ImageCall =>
    /\ Cardinality(RequestsTo(MULTIMODAL_BASE_URL)) <= RETRY_COUNT + 1
    /\ Cardinality(RequestsTo(TEST_BACKEND_URL)) <= RETRY_COUNT + 1
    /\ Cardinality({i \in 1..Len(log) : IsRequest(i)}) <= 2 * (RETRY_COUNT + 1)

C5_Witness ==
  /\ ImageCall
  /\ pc = "rejected"
  /\ Cardinality(RequestsTo(MULTIMODAL_BASE_URL)) = RETRY_COUNT + 1
  /\ Cardinality(RequestsTo(TEST_BACKEND_URL)) = RETRY_COUNT + 1

\* C6: sendMessage requests the multimodal endpoint first and once, requests
\* /api/v1/chat at most once and exactly when the multimodal attempt failed,
\* and sends nothing else.
C6_ChatFallback ==
  ChatCall =>
    /\ Len(log) >= 1 => log[1].path = CHAT_MULTIMODAL_PATH
    /\ Cardinality(RequestsOn(CHAT_MULTIMODAL_PATH)) <= 1
    /\ Cardinality(RequestsOn(CHAT_PATH)) <= 1
    /\ \A i \in 1..Len(log) :
         IsRequest(i) /\ log[i].path \in {CHAT_MULTIMODAL_PATH, CHAT_PATH}
    /\ Settled =>
         /\ Cardinality(RequestsOn(CHAT_MULTIMODAL_PATH)) = 1
         /\ (RequestsOn(CHAT_PATH) # {} <=> log[1].outcome # "ok")

C6_Witness ==
  /\ ChatCall
  /\ pc = "resolved"
  /\ Len(log) = 2
  /\ log[1].outcome = "http500"
  /\ log[2].path = CHAT_PATH

ProbesOf(fn) == {i \in 1..Len(probes) : probes[i].request.fn = fn}
HealthStatuses == {"healthy", "offline", "timeout", "error"}

\* C7: checkBackendHealth reports a failed-to-fetch / connection-refused
\* error as "offline" and an expired health-check timeout as "timeout".
C7_BackendHealthClassifies ==
  \A i \in ProbesOf("checkBackendHealth") :
    /\ (probes[i].outcome \in {"failed_to_fetch", "conn_refused"}
          => probes[i].result.status = "offline")
    /\ (probes[i].outcome = "timeout" => probes[i].result.status = "timeout")

C7_Witness ==
  /\ Len(probes) = 2
  /\ probes[1].request = MainRequest
  /\ probes[1].outcome = "timeout"
  /\ probes[1].result.status = "timeout"
  /\ probes[2].request = TestRequest
  /\ probes[2].outcome = "conn_refused"
  /\ probes[2].result.status = "offline"

\* C8: checkMCPBackend reports a connection-refused error as "offline" and
\* an expired timeout as "timeout", neither being the status of an HTTP error.
C8_MCPClassifies ==
  \A i \in ProbesOf("checkMCPBackend") :
    /\ (probes[i].outcome \in {"failed_to_fetch", "conn_refused"}
          => probes[i].result.status = "offline")
    /\ (probes[i].outcome = "timeout" => probes[i].result.status = "timeout")
    /\ (probes[i].outcome \in {"failed_to_fetch", "conn_refused", "timeout"}
          => probes[i].result.status # MCPHealthResult("http500", EmptyObject).status)

\* C9: the status of every health result is one of healthy, offline,
\* timeout, error.
C9_StatusDomain ==
  /\ \A i \in 1..Len(probes) : probes[i].result.status \in HealthStatuses
  /\ hpc = "done" => multimodalResult.status \in HealthStatuses
  /\ apc = "done" =>
       /\ allResult.multimodal.status \in HealthStatuses
       /\ allResult.mcp.status \in HealthStatuses

\* The probe of a backend that answered its health request successfully.
Answered(req) ==
  {i \in 1..Len(probes) : probes[i].request = req /\ probes[i].outcome = "ok"}

\* C10: checkMultimodalBackend returns the main backend's result if the main
\* backend answered, else the test backend's result if that one answered,
\* else the main backend's failure; so it reports healthy exactly when one
\* of the two answered its health request successfully.
C10_SelectsHealthyBackend ==
  hpc = "done" =>
    /\ Answered(MainRequest) # {} =>
         multimodalResult = probes[CHOOSE i \in Answered(MainRequest) : TRUE].result
    /\ (Answered(MainRequest) = {} /\ Answered(TestRequest) # {}) =>
         multimodalResult = probes[CHOOSE i \in Answered(TestRequest) : TRUE].result
    /\ (Answered(MainRequest) = {} /\ Answered(TestRequest) = {}) =>
         multimodalResult = mainResult
    /\ multimodalResult.status = "healthy"
         <=> Answered(MainRequest) \cup Answered(TestRequest) # {}

SentCount(req) == Cardinality({i \in 1..Len(sent) : sent[i] = req})

\* C11: a health check sends each of its requests once: one request per
\* checkMCPBackend, at most one to the main and one to the test URL per
\* checkMultimodalBackend, the test URL only after the main probe came back
\* with a status other than healthy; a completed check sent exactly one
\* request per probe.
C11_NoHealthRetry ==
  /\ SentCount(MainRequest) <= 1
  /\ SentCount(TestRequest) <= 1
  /\ SentCount(MCPRequest) <= 1
  /\ Len(sent) <= 3
  /\ SentCount(TestRequest) = 1 =>
       \E i \in 1..Len(probes) :
          /\ probes[i].request = MainRequest
          /\ probes[i].result.status # "healthy"
  /\ mpc = "done" => SentCount(MCPRequest) = 1
  /\ hpc = "done" =>
       /\ SentCount(MainRequest) = 1
       /\ Cardinality(ProbesOf("checkBackendHealth")) = Len(sent) - 1

C11_Witness ==
  /\ hpc = "done"
  /\ mpc = "done"
  /\ sent = <<MainRequest, MCPRequest, TestRequest>>
  /\ Len(probes) = 3

\* C12 as stated: no two requests of one handler are in flight together,
\* the health check run on mount included.
C12_NoParallelRequests == Cardinality(inflight) <= 1

InflightOf(fn) == {r \in inflight : r.fn = fn}

\* C12 amended: checkAllServices has its two checks in flight together, so
\* up to two health requests are pending at once, one per check; the
\* requests of one check (main probe, then test probe) never overlap.
C12_OneRequestPerCheck ==
  /\ Cardinality(inflight) <= 2
  /\ Cardinality(InflightOf("checkBackendHealth")) <= 1
  /\ Cardinality(InflightOf("checkMCPBackend")) <= 1
  /\ hpc = "done" => InflightOf("checkBackendHealth") = {}
  /\ mpc = "done" => InflightOf("checkMCPBackend") = {}

C12_Witness ==
  /\ apc = "waiting"
  /\ inflight = {TestRequest, MCPRequest}
  /\ Len(probes) = 1

\* C16: in an image search every request to the primary URL precedes every
\* request to the secondary URL, a repeated request to a URL directly follows
\* a retry delay of RETRY_DELAY on that URL, and nothing is sent after a
\* successful response.
C16_RequestOrder ==
  ImageCall =>
    /\ \A i \in RequestsTo(MULTIMODAL_BASE_URL) :
         \A j \in RequestsTo(TEST_BACKEND_URL) : i < j
    /\ \A j \in 2..Len(log) :
         (IsRequest(j) /\ \E i \in 1..(j - 1) : IsRequest(i) /\ log[i].url = log[j].url)
           => /\ log[j - 1].kind = "delay"
              /\ log[j - 1].url = log[j].url
              /\ log[j - 1].wait = RETRY_DELAY
    /\ \A i \in 1..Len(log) :
         (IsRequest(i) /\ log[i].outcome = "ok") => (i = Len(log) /\ pc = "resolved")

C16_Witness ==
  /\ ImageCall
  /\ pc = "resolved"
  /\ Len(log) = 4
  /\ log[1] = RequestEvent(MULTIMODAL_BASE_URL, SEARCH_IMAGES_PATH, "http500")
  /\ log[2] = DelayEvent(MULTIMODAL_BASE_URL)
  /\ log[3] = RequestEvent(MULTIMODAL_BASE_URL, SEARCH_IMAGES_PATH, "timeout")
  /\ log[4] = RequestEvent(TEST_BACKEND_URL, SEARCH_IMAGES_PATH, "ok")

NoDuplicates(list) ==
  \A i, j \in 1..Len(list) : i # j => list[i] # list[j]

\* C18: whatever handlers of SearchHistory have run (the currentQuery effect
\* and handleSearchSelect, which call addToHistory, removeFromHistory,
\* clearHistory), the recent-search list has at most 10 entries, holds no
\* query twice, holds no query that is blank after trimming, and, while the
\* query added last is still listed, that query is the first entry.
C18_HistoryInvariant ==
  /\ Len(searchHistory) <= 10
  /\ NoDuplicates(searchHistory)
  /\ \A i \in 1..Len(searchHistory) : trim(searchHistory[i]) # <<>>
  /\ lastAdded \in Range(searchHistory) => searchHistory[1] = lastAdded

\* A new query was added to a full list: the list is still at the limit, the
\* oldest saved query is gone and the new query is first.
C18_Witness ==
  /\ Len(searchHistory) = 10
  /\ SavedQueries[HistoryPrefill] \notin Range(searchHistory)
  /\ searchHistory[1] = lastAdded
  /\ lastAdded = <<"pop1">>

\* C19: whatever toggleFavorite calls have run, the favorites list has at
\* most 5 entries and holds no query twice.
C19_FavoritesInvariant ==
  /\ Len(favorites) <= 5
  /\ NoDuplicates(favorites)

\* toggleFavorite has filled the list up to the limit with a clicked query.
C19_Witness ==
  /\ Len(favorites) = 5
  /\ favorites[5] \in ClickedQueries

\* C20: after toggleFavorite(q) the favorite state of q is the opposite of
\* what it was before the call: a query that was not a favorite is one now,
\* and a query that was a favorite is none now.
C20_ToggleFlips ==
  lastToggle # NoToggle =>
    (lastToggle.wasFavorite <=> lastToggle.query \notin Range(favorites))


\* C15: whatever MockSearchService.search calls have run, overlapping ones
\* included, the result cache holds at most 100 entries, and the key deleted
\* by the last eviction was, among the keys then cached, the one that had
\* entered the cache earliest.
C15_CacheBounded ==
  /\ Len(cache) <= 100
  /\ lastEvicted.key = lastEvicted.earliest

\* A result was stored into a full cache: an entry has been evicted and the
\* cache is full again.
C15_Witness ==
  /\ lastEvicted # NoEviction
  /\ Len(cache) = 100


Idle == handler = NoHandler

\* The caught error stems from an HTTP error status.
IsHttpFailure(e) == Includes(e.message, HttpError.message)

\* The messages appended since the last finished call started.
AppendedSince == (Len(lastCall.before.messages) + 1)..Len(chatMessages)

\* C13: when an image search or a chat request has failed with an HTTP error
\* status, chatMessages holds a message appended for the failure and the
\* render puts that message's text on the screen.
C13_HttpFailureVisible ==
  (lastCall.failed /\ IsHttpFailure(lastCall.error)) =>
    \E i \in AppendedSince :
       chatMessages[i].error /\ RenderedText(chatMessages[i]) # <<>>

\* The last call was a searchImages call that got a successful answer with
\* zero images, and no other call has started since.
ZeroImageSuccess ==
  /\ Idle
  /\ lastCall.kind = "image"
  /\ ~lastCall.failed
  /\ lastCall.images = 0

LastMessage == chatMessages[Len(chatMessages)]

\* C14 as stated: after any searchImages call that got a successful answer
\* with zero images, an assistant message without the error flag and with
\* the empty-state text has been appended and imageSearchError is null.
C14_EmptyStateMessage ==
  ZeroImageSuccess =>
    /\ AppendedSince # {}
    /\ LastMessage.role = "assistant"
    /\ ~LastMessage.error
    /\ RenderedText(LastMessage) = EMPTY_STATE_TEXT
    /\ imageSearchError = NullError

\* C14 amended: a fresh search (append = false) that got a successful answer
\* with zero images has appended an assistant message without the error flag
\* whose rendered text is the empty-state text, and imageSearchError is null;
\* a load-more search (append = true) with such an answer has appended no
\* message and has left imageSearchError as it was.
C14_FreshEmptyState ==
  ZeroImageSuccess =>
    IF lastCall.append
      THEN /\ chatMessages = lastCall.before.messages
           /\ imageSearchError = lastCall.before.error
      ELSE /\ AppendedSince # {}
           /\ LastMessage.role = "assistant"
           /\ ~LastMessage.error
           /\ RenderedText(LastMessage) = EMPTY_STATE_TEXT
           /\ imageSearchError = NullError

\* A fresh search was answered with zero images and its empty-state message
\* is the last message.
C14_Witness ==
  /\ ZeroImageSuccess
  /\ ~lastCall.append
  /\ LastMessage.content = EMPTY_STATE_TEXT

\* The last call was a searchImages call that failed outside development
\* mode, and no other call has started since.
FailedSearch ==
  /\ Idle
  /\ ~devMode
  /\ lastCall.kind = "image"
  /\ lastCall.failed

\* C17: outside development mode a failed load-more search leaves the loaded
\* results, the total count, the has-more flag, the current page and
\* chatMessages as they were when it started, sets imageSearchError to the
\* error's message and ends with the loading flag off; a failed fresh search
\* leaves no results, a count of 0 and has-more off.
C17_FailedSearchFrame ==
  FailedSearch =>
    IF lastCall.append
      THEN /\ imageSearchResults = lastCall.before.results
           /\ totalImageCount = lastCall.before.total
           /\ hasMoreImages = lastCall.before.hasMore
           /\ currentImagePage = lastCall.before.page
           /\ chatMessages = lastCall.before.messages
           /\ imageSearchError = ErrorText(lastCall.error)
           /\ ~imageSearchLoading
      ELSE /\ imageSearchResults = <<>>
           /\ totalImageCount = 0
           /\ ~hasMoreImages

\* A load-more search has failed after a first page had been loaded.
C17_Witness ==
  /\ FailedSearch
  /\ lastCall.append
  /\ imageSearchResults # <<>>
  /\ imageSearchError # NullError


\* The queries persisted before the mount that fit under the cap of 10 next
\* to one newly added query.
KeptAtMount(saved) ==
  IF Len(saved) < 10 THEN Range(saved) ELSE Range(SubSeq(saved, 1, 9))

\* C21: right after the mount effects of SearchHistory have run, every query
\* that local storage held before the mount (up to the cap of 10) is in the
\* in-memory history and still in local storage, whatever currentQuery the
\* component was mounted with.
C21_MountKeepsHistory ==
  justMounted.fresh =>
    \A q \in KeptAtMount(justMounted.saved) :
       q \in Range(searchHistory) /\ q \in Range(storedHistory)


\* C22: while App is mounted, a window wider than 1430 px shows the aside
\* closed if the last toggle made on such a window closed it and open
\* otherwise; manualClosed remembers exactly that choice, so a toggle on a
\* narrower window does not change it; and after a resize to a width of at
\* most 1430 px the aside is closed.
C22_AsideKeepsChoice ==
  appMounted =>
    /\ innerWidth > 1430 => (isOpen <=> lastLargeToggle # "closed")
    /\ manualClosed <=> lastLargeToggle = "closed"
    /\ (lastLayoutEvent = "resize" /\ innerWidth <= 1430) => ~isOpen

\* The user closed the aside on a wide window and a later resize has made
\* the window wide again: the aside is closed.
C22_Witness ==
  /\ appMounted
  /\ lastLayoutEvent = "resize"
  /\ innerWidth > 1430
  /\ lastLargeToggle = "closed"
  /\ ~isOpen

\* C23: while Header is mounted, right after the mount and after every
\* resize, its isLargeScreen is true exactly when the window is wider than
\* 1430 px.
C23_HeaderLargeScreen ==
  headerMounted => (headerIsLargeScreen <=> innerWidth > 1430)


\* C24: the Modal has at most one keydown listener registered, none while
\* it is closed and the one of the latest render while it is open; a Tab
\* pressed on the last focusable element of the open modal leaves the focus
\* on the first, a Shift+Tab pressed on the first leaves it on the last, and
\* an Escape pressed while the modal was open has called onCancel, which
\* closes it.
C24_FocusTrap ==
  /\ Cardinality(listeners) <= 1
  /\ ~modalOpen => listeners = {}
  /\ modalOpen => listeners = {onCancelId}
  /\ (lastKey.open /\ lastKey.key = "Tab" /\ ~lastKey.shiftKey /\ lastKey.from = lastEl)
       => activeElement = firstEl
  /\ (lastKey.open /\ lastKey.key = "Tab" /\ lastKey.shiftKey /\ lastKey.from = firstEl)
       => activeElement = lastEl
  /\ (lastKey.open /\ lastKey.key = "Escape") => lastKey.cancelled /\ ~modalOpen

\* After a re-render of the parent, Tab was pressed on the last element of
\* the open modal and the focus is on the first.
C24_Witness ==
  /\ modalOpen
  /\ onCancelId > 1
  /\ lastKey.open
  /\ lastKey.key = "Tab" /\ ~lastKey.shiftKey /\ lastKey.from = lastEl
  /\ activeElement = firstEl

\* C25: when the modal has closed and its focus restore has run, the focus
\* is on the element of the page that had it just before the modal was
\* opened.
C25_FocusRestored ==
  (modalPhase = "restored" /\ focusBeforeOpen \in OutsideEls)
    => activeElement = focusBeforeOpen

====
